---- MODULE Spec2Model ----
\* Model of codex-rs/core/src/model_provider_info.rs: the provider profile
\* (ModelProviderInfo) and its three read-only queries get_full_url, api_key and
\* get_custom_headers, the last with the placeholder loop substitute_env_vars.
\*
\* Strings are sequences of one-character strings, so that find, split_once,
\* trim, lines and replace_range are computed on the text as the code computes
\* them.  Offsets are 0-based byte offsets as in the Rust code; the text of the
\* model is ASCII, where bytes and characters coincide.
EXTENDS Integers, Sequences, FiniteSets, TLC

VARIABLES profile, env, openai_api_key, pc, todo, cur_key, result, headers, ret, ret_state

vars == <<profile, env, openai_api_key, pc, todo, cur_key, result, headers, ret, ret_state>>

-----------------------------------------------------------------------------
\* Bounds of the model.

\* A header template is a concatenation of at most MaxTemplateParts parts.
MaxTemplateParts == 4
\* The value of the placeholder variable is a concatenation of at most MaxValParts parts.
MaxValParts == 3
\* The working string of substitute_env_vars is followed up to this length.
MaxResultLen == 12
\* The process-wide header block has at most MaxLines lines.
MaxLines == 2
\* query_params has at most MaxParams entries.
MaxParams == 2

-----------------------------------------------------------------------------
\* Option<T>, Result<T, E> and HashMap<String, String>.

None == [some |-> FALSE, val |-> <<>>]

Some(v) == [some |-> TRUE, val |-> v]

Ok(v) == [tag |-> "Ok", val |-> v]

Err(e) == [tag |-> "Err", val |-> e]

\* HashMap::new()
EmptyMap == <<>>

\* HashMap::insert: a later insert of a key replaces the earlier value.
MapInsert(m, k, v) == [x \in (DOMAIN m) \cup {k} |-> IF x = k THEN v ELSE m[x]]

-----------------------------------------------------------------------------
\* String primitives of the Rust standard library, on sequences of characters.

Min(S) == CHOOSE x \in S : \A y \in S : x <= y

\* &s[a..b] with 0-based offsets a <= b.
Slice(s, a, b) == SubSeq(s, a + 1, b)

\* str::find(pat) for a two-character pattern: offset of the first match, -1 for None.
FindStr2(s, c1, c2) ==
    LET I == {i \in 0..(Len(s) - 2) : s[i + 1] = c1 /\ s[i + 2] = c2}
    IN  IF I = {} THEN -1 ELSE Min(I)

\* str::find(ch) for one character: offset of the first match, -1 for None.
FindChar(s, c) ==
    LET I == {i \in 0..(Len(s) - 1) : s[i + 1] = c}
    IN  IF I = {} THEN -1 ELSE Min(I)

\* char::is_whitespace, on the characters of the model.
IsWhitespace(c) == c \in {" ", "\t", "\n", "\r"}

\* str::trim: drop leading and trailing whitespace.
Trim(s) ==
    LET K == {i \in 1..Len(s) : ~IsWhitespace(s[i])}
    IN  IF K = {} THEN <<>>
        ELSE SubSeq(s, Min(K), CHOOSE j \in K : \A i \in K : i <= j)

\* Mutant of SplitOnceColon: the line is split at its last colon (rsplit_once).
SplitAtLastColon(line) ==
    LET I == {i \in 0..(Len(line) - 1) : line[i + 1] = ":"}
    IN  IF I = {} THEN None
        ELSE LET i == CHOOSE x \in I : \A y \in I : y <= x
             IN  Some(<<Slice(line, 0, i), Slice(line, i + 1, Len(line))>>)

\* str::split_once(':'): None (some = FALSE), or the text before and after the
\* first colon.
SplitOnceColon(line) ==
    LET i == FindChar(line, ":")
    IN  IF i < 0 THEN None
        ELSE Some(<<Slice(line, 0, i), Slice(line, i + 1, Len(line))>>)

\* str::lines: the text is cut after every "\n"; each piece loses its final
\* "\n" and then a final "\r"; text after the last "\n" is a line of its own when
\* it is not empty.
RECURSIVE StrLines(_)
StrLines(s) ==
    IF s = <<>> THEN <<>>
    ELSE LET n == FindChar(s, "\n")
             raw == IF n < 0 THEN s ELSE Slice(s, 0, n)
             line == IF n >= 0 /\ Len(raw) > 0 /\ raw[Len(raw)] = "\r"
                     THEN Slice(raw, 0, Len(raw) - 1) ELSE raw
         IN  IF n < 0 THEN <<line>>
             ELSE <<line>> \o StrLines(Slice(s, n + 1, Len(s)))

-----------------------------------------------------------------------------
\* The process environment.  A variable is unset, holds text, or holds bytes
\* that are not valid Unicode (std::env::var then answers Err(NotUnicode)).

Unset == [kind |-> "unset", text |-> <<>>]

Text(s) == [kind |-> "text", text |-> s]

NotUnicode == [kind |-> "not_unicode", text |-> <<>>]

CODEX_CUSTOM_HEADERS ==
    <<"C","O","D","E","X","_","C","U","S","T","O","M","_","H","E","A","D","E","R","S">>

\* Name of the primary credential variable (crate::openai_api_key).
OPENAI_API_KEY_ENV_VAR == <<"O","P","E","N","A","I","_","A","P","I","_","K","E","Y">>

\* The variable a placeholder of the model can name, and a provider's credential variable.
VarA == <<"A">>

VarK == <<"K">>

EnvNames == {VarA, VarK, CODEX_CUSTOM_HEADERS}

\* std::env::var(name): Ok(text), Err("NotPresent") or Err("NotUnicode").
EnvVar(name) ==
    IF name \notin EnvNames THEN Err("NotPresent")
    ELSE IF env[name].kind = "text" THEN Ok(env[name].text)
    ELSE IF env[name].kind = "not_unicode" THEN Err("NotUnicode")
    ELSE Err("NotPresent")

\* crate::openai_api_key::get_openai_api_key(): the external key lookup.
GetOpenaiApiKey == openai_api_key

-----------------------------------------------------------------------------
\* substitute_env_vars: one evaluation of the loop condition and one loop body.

\* result.find("${")
SubstStart(s) == FindStr2(s, "$", "{")

\* Mutant of SubstEnd: the search for "}" starts one character too late, so an
\* empty name ("${}") is not seen as a placeholder.
SubstEndOffByOne(s, start) ==
    LET e == FindChar(Slice(s, start + 3, Len(s)), "}")
    IN  IF e < 0 THEN -1 ELSE e + 1

\* result[start + 2..].find('}'), -1 for None
SubstEnd(s, start) == FindChar(Slice(s, start + 2, Len(s)), "}")

\* Mutant of SubstContinues: the `else { break }` is missing, the body also runs
\* for a "${" that no "}" follows.
SubstContinuesNoBreak(s) == SubstStart(s) >= 0

\* `while let Some(start) = ... { if let Some(end) = ... {body} else {break} }`:
\* the body runs when both searches succeed.
SubstContinues(s) == SubstStart(s) >= 0 /\ SubstEnd(s, SubstStart(s)) >= 0

\* std::env::var(var_name).unwrap_or_else(|_| String::new())
SubstReplacement(var_name) ==
    LET r == EnvVar(var_name) IN IF r.tag = "Ok" THEN r.val ELSE <<>>

\* The loop body: result.replace_range(start..start + 3 + end, &replacement).
SubstBody(s) ==
    LET start == SubstStart(s)
        end == SubstEnd(s, start)
        var_name == Slice(s, start + 2, start + 2 + end)
    IN  Slice(s, 0, start) \o SubstReplacement(var_name)
            \o Slice(s, start + 3 + end, Len(s))

-----------------------------------------------------------------------------
\* ModelProviderInfo and WireApi.

WireApis == {"Responses", "Chat"}

ProviderName == <<"p">>

\* A profile with the given fields (struct ModelProviderInfo).
MkProfile(base_url, env_key, instructions, wire_api, query_params, custom_headers) ==
    [name |-> ProviderName, base_url |-> base_url, env_key |-> env_key,
     env_key_instructions |-> instructions, wire_api |-> wire_api,
     query_params |-> query_params, custom_headers |-> custom_headers]

\* The orders in which a HashMap's iterator can yield the keys of S.
RECURSIVE Orders(_)
Orders(S) ==
    IF S = {} THEN {<<>>}
    ELSE UNION {{<<x>> \o o : o \in Orders(S \ {x})} : x \in S}

-----------------------------------------------------------------------------
\* get_custom_headers.

\* `if let Some(provider_headers) = &self.custom_headers { for (key, value) in ... }`:
\* the entries to substitute and insert, in iteration order `order`.
ProviderItems(order) ==
    IF profile.custom_headers.some
    THEN [i \in 1..Len(order) |->
            [key |-> order[i], value |-> profile.custom_headers.val[order[i]]]]
    ELSE <<>>

\* line.split_once(':') is Some
HasColon(line) == SplitOnceColon(line).some

\* The key and the value of one line that has a colon, both trimmed.
LineItem(line) ==
    LET kv == SplitOnceColon(line).val
    IN  [key |-> Trim(kv[1]), value |-> Trim(kv[2])]

\* `if let Ok(env_headers) = std::env::var("CODEX_CUSTOM_HEADERS") { for line in
\* env_headers.lines() { if let Some((key, value)) = line.split_once(':') ... } }`:
\* the entries to substitute and insert, in line order.
BlockItems ==
    LET r == EnvVar(CODEX_CUSTOM_HEADERS)
    IN  IF r.tag = "Ok"
        THEN LET good == SelectSeq(StrLines(r.val), HasColon)
             IN  [i \in 1..Len(good) |-> LineItem(good[i])]
        ELSE <<>>

\* Mutant of HeaderItems: the block's entries are inserted before the provider's.
HeaderItemsBlockFirst(provider, block) == block \o provider

\* The order of insertion into `headers`: the provider's entries, then the block's.
HeaderItems(provider, block) == provider \o block

NoRet == [op |-> "none", val |-> <<>>]

\* `ret` is the value the latest completed call returned.  `ret_state` tells how
\* it relates to the environment: "none" (no call has returned), "fresh" (nothing
\* changed since it was returned), "stale" (the environment or the external key
\* changed since), "refreshed" (returned by a call made after such a change).
Returning == IF ret_state \in {"stale", "refreshed"} THEN "refreshed" ELSE "fresh"

Changing == IF ret_state = "none" THEN "none" ELSE "stale"

\* Go on to the next entry to substitute, or return the finished mapping.
Advance(items, hdrs) ==
    IF items = <<>>
    THEN /\ pc' = "idle"
         /\ ret' = [op |-> "get_custom_headers", val |-> hdrs]
         /\ ret_state' = Returning
         /\ todo' = <<>>
         /\ cur_key' = <<>>
         /\ result' = <<>>
         /\ headers' = EmptyMap
    ELSE /\ pc' = "loop"
         /\ cur_key' = Head(items).key
         /\ result' = Head(items).value
         /\ todo' = Tail(items)
         /\ headers' = hdrs
         /\ UNCHANGED <<ret, ret_state>>

\* A call of get_custom_headers starts: `let mut headers = HashMap::new()`, and
\* the first substitute_env_vars is entered (`let mut result = input.to_string()`).
\* The environment does not change during a call, so the block is read here.
GetCustomHeaders ==
    /\ pc = "idle"
    /\ \E order \in Orders(IF profile.custom_headers.some
                           THEN DOMAIN profile.custom_headers.val ELSE {}) :
          Advance(HeaderItems(ProviderItems(order), BlockItems), EmptyMap)
    /\ UNCHANGED <<profile, env, openai_api_key>>

\* The loop condition of substitute_env_vars finds a complete placeholder.
SubstLoopFound ==
    /\ pc = "loop"
    /\ SubstContinues(result)
    /\ pc' = "body"
    /\ UNCHANGED <<profile, env, openai_api_key, todo, cur_key, result, headers, ret, ret_state>>

\* The loop body replaces the placeholder.  The working string is followed up
\* to MaxResultLen characters.
SubstLoopBody ==
    /\ pc = "body"
    /\ Len(SubstBody(result)) <= MaxResultLen
    /\ result' = SubstBody(result)
    /\ pc' = "loop"
    /\ UNCHANGED <<profile, env, openai_api_key, todo, cur_key, headers, ret, ret_state>>

\* The loop ends (no "${", or no "}" after it): substitute_env_vars returns
\* `result`, which is inserted under the entry's key, and the next entry follows.
SubstLoopExit ==
    /\ pc = "loop"
    /\ ~SubstContinues(result)
    /\ Advance(todo, MapInsert(headers, cur_key, result))
    /\ UNCHANGED <<profile, env, openai_api_key>>

-----------------------------------------------------------------------------
\* Specification of substitute_env_vars as a function of the template and the
\* environment: one header "X" whose template is any text of the bounded set,
\* the placeholder variable A holding any value of the bounded set.

Parts == {<<"$", "{">>, <<"}">>, <<"A">>}

RECURSIVE Concats(_)
Concats(n) ==
    IF n = 0 THEN {<<>>}
    ELSE LET S == Concats(n - 1) IN S \cup {s \o p : s \in S, p \in Parts}

\* Templates and values with a lone "$" or "{" next to a placeholder.
LoneTemplates ==
    { <<"$", "{", "A", "}", "{", "A", "}">>,
      <<"$", "$", "{", "A", "}">>,
      <<"$", "{", "A", "}", "{">>,
      <<"$", "$", "{", "A", "}", "$", "{">> }

LoneValues == {<<"$">>, <<"{">>, <<"{", "A", "}">>, <<"{", "A", "}", "$">>}

Templates == Concats(MaxTemplateParts) \cup LoneTemplates

AValues == {Unset, NotUnicode} \cup {Text(v) : v \in Concats(MaxValParts) \cup LoneValues}

HX == <<"X">>

OneHeader(t) == [k \in {HX} |-> t]

BaseUrl == <<"b">>

InitCall ==
    /\ pc = "idle"
    /\ todo = <<>>
    /\ cur_key = <<>>
    /\ result = <<>>
    /\ headers = EmptyMap
    /\ ret = NoRet
    /\ ret_state = "none"

InitSubst ==
    /\ \E t \in Templates :
          profile = MkProfile(BaseUrl, None, None, "Chat", None, Some(OneHeader(t)))
    /\ \E a \in AValues :
          env = [n \in EnvNames |-> IF n = VarA THEN a ELSE Unset]
    /\ openai_api_key = None
    /\ InitCall

NextSubst ==
    \/ GetCustomHeaders
    \/ SubstLoopFound
    \/ SubstLoopBody
    \/ SubstLoopExit

SpecSubst == InitSubst /\ [][NextSubst]_vars

\* The loop is sequential code: a step that can be taken is taken.
FairSubst == SpecSubst /\ WF_vars(SubstLoopFound) /\ WF_vars(SubstLoopBody) /\ WF_vars(SubstLoopExit)

-----------------------------------------------------------------------------
\* Claims about substitute_env_vars, checked under SpecSubst and FairSubst.

\* get_custom_headers has returned and its mapping is in `ret`.
HeadersReturned ==
    pc = "idle" /\ ret.op = "get_custom_headers" /\ ret_state \in {"fresh", "refreshed"}

\* The template of header X in the profile, and what get_custom_headers returned for it.
TemplateX == profile.custom_headers.val[HX]

ResolvedX == ret.val[HX]

\* The text of environment variable `name`, empty when it has none.
ValueOf(name) ==
    IF name \in EnvNames /\ env[name].kind = "text" THEN env[name].text ELSE <<>>

\* s holds "${" at offset i with a "}" somewhere after it.
CompleteAt(s, i) ==
    /\ i + 2 <= Len(s)
    /\ s[i + 1] = "$"
    /\ s[i + 2] = "{"
    /\ \E j \in (i + 3)..Len(s) : s[j] = "}"

HasCompletePlaceholder(s) == \E i \in 0..(Len(s) - 2) : CompleteAt(s, i)

\* s holds "${" at offset i with no "}" after it.
UnterminatedAt(s, i) ==
    /\ i + 2 <= Len(s)
    /\ s[i + 1] = "$"
    /\ s[i + 2] = "{"
    /\ \A j \in (i + 3)..Len(s) : s[j] # "}"

\* One left-to-right pass over the template: each "${NAME}" is replaced by the
\* value of NAME, the text spliced in is not looked at again.
RECURSIVE OnePass(_)
OnePass(t) ==
    LET start == FindStr2(t, "$", "{")
        close == IF start < 0 THEN -1 ELSE FindChar(Slice(t, start + 2, Len(t)), "}")
    IN  IF start < 0 \/ close < 0 THEN t
        ELSE Slice(t, 0, start) \o ValueOf(Slice(t, start + 2, start + 2 + close))
                \o OnePass(Slice(t, start + 3 + close, Len(t)))

\* C1: every started call of get_custom_headers (and so every substitute_env_vars)
\* returns after finitely many substitution steps.
C1_SubstitutionTerminates == (pc # "idle") ~> (pc = "idle")

\* C3: the value get_custom_headers returns for a header equals one left-to-right
\* pass over its template, with the spliced-in values inserted verbatim and not
\* interpreted as placeholders.
C3_ResultIsOnePass == HeadersReturned => ResolvedX = OnePass(TemplateX)

\* C7: when the template has a "${" with no "}" after it, the returned value ends
\* with the template's text from the first such "${" on, untouched; when that
\* "${" is the template's first one, the template is returned unchanged.
C7_UnterminatedKept ==
    HeadersReturned =>
        \A u \in 0..(Len(TemplateX) - 2) :
            (/\ UnterminatedAt(TemplateX, u)
             /\ \A i \in 0..(u - 1) : ~UnterminatedAt(TemplateX, i))
            => /\ Len(ResolvedX) >= Len(TemplateX) - u
               /\ Slice(ResolvedX, Len(ResolvedX) - (Len(TemplateX) - u), Len(ResolvedX))
                    = Slice(TemplateX, u, Len(TemplateX))
               /\ (FindStr2(TemplateX, "$", "{") = u => ResolvedX = TemplateX)

\* Template "${A}${" with A = "A": the placeholder is substituted, the
\* unterminated "${" after it is kept.
C7_Witness ==
    /\ HeadersReturned
    /\ TemplateX = <<"$", "{", "A", "}", "$", "{">>
    /\ env[VarA] = Text(<<"A">>)
    /\ ResolvedX = <<"A", "$", "{">>

\* C10: no value returned by get_custom_headers contains a "${" that is followed
\* later in the string by a "}".
C10_NoCompletePlaceholderLeft ==
    HeadersReturned => \A k \in DOMAIN ret.val : ~HasCompletePlaceholder(ret.val[k])

\* Template "${A}}" with A = "${A": the spliced-in text completes a new
\* placeholder, which is substituted again before the call returns.
C10_Witness ==
    /\ HeadersReturned
    /\ TemplateX = <<"$", "{", "A", "}", "}">>
    /\ env[VarA] = Text(<<"$", "{", "A">>)
    /\ ResolvedX = <<"$", "{", "A">>

\* The working string never outgrows the length the model follows at these bounds.
ResultWithinBound == pc = "body" => Len(SubstBody(result)) <= MaxResultLen

-----------------------------------------------------------------------------
\* get_full_url.

\* Mutant of WireSuffix: the two arms of the match are exchanged.
WireSuffixSwapped(wire_api) ==
    IF wire_api = "Responses"
    THEN <<"/", "c", "h", "a", "t", "/", "c", "o", "m", "p", "l", "e", "t", "i", "o", "n", "s">>
    ELSE <<"/", "r", "e", "s", "p", "o", "n", "s", "e", "s">>

\* `match self.wire_api { Responses => ".../responses...", Chat => ".../chat/completions..." }`
WireSuffix(wire_api) ==
    IF wire_api = "Responses"
    THEN <<"/", "r", "e", "s", "p", "o", "n", "s", "e", "s">>
    ELSE <<"/", "c", "h", "a", "t", "/", "c", "o", "m", "p", "l", "e", "t", "i", "o", "n", "s">>

\* [String]::join(sep)
RECURSIVE Join(_, _)
Join(strs, sep) ==
    IF strs = <<>> THEN <<>>
    ELSE IF Len(strs) = 1 THEN strs[1]
    ELSE strs[1] \o sep \o Join(Tail(strs), sep)

\* `params.iter().map(|(k, v)| format!("{k}={v}")).collect::<Vec<_>>().join("&")`
\* for the iteration order `order`.
FullParams(params, order) ==
    Join([i \in 1..Len(order) |-> order[i] \o <<"=">> \o params[order[i]]], <<"&">>)

\* `self.query_params.as_ref().map_or_else(String::new, |params| format!("?{full_params}"))`
QueryString(order) ==
    IF profile.query_params.some
    THEN <<"?">> \o FullParams(profile.query_params.val, order)
    ELSE <<>>

\* format!("{base_url}<suffix>{query_string}")
FullUrl(order) == profile.base_url \o WireSuffix(profile.wire_api) \o QueryString(order)

\* A call of get_full_url.
GetFullUrl ==
    /\ pc = "idle"
    /\ \E order \in Orders(IF profile.query_params.some
                           THEN DOMAIN profile.query_params.val ELSE {}) :
          ret' = [op |-> "get_full_url", val |-> FullUrl(order)]
    /\ ret_state' = Returning
    /\ UNCHANGED <<profile, env, openai_api_key, pc, todo, cur_key, result, headers>>

\* Specification of get_full_url as a function of the profile.

BaseUrls == {<<>>, <<"b">>, <<"b", "/">>}

QueryKeys == {<<"k">>, <<"j">>, <<"a", "&">>, <<"=">>}

QueryValues == {<<>>, <<"v">>, <<"=", "?">>}

\* The maps of at most MaxParams entries.
QueryMaps ==
    UNION {[D -> QueryValues] : D \in {D \in SUBSET QueryKeys : Cardinality(D) <= MaxParams}}

InitUrl ==
    /\ \E b \in BaseUrls, w \in WireApis, q \in {None} \cup {Some(m) : m \in QueryMaps} :
          profile = MkProfile(b, None, None, w, q, None)
    /\ env = [n \in EnvNames |-> Unset]
    /\ openai_api_key = None
    /\ InitCall

NextUrl == GetFullUrl

SpecUrl == InitUrl /\ [][NextUrl]_vars

UrlReturned == ret.op = "get_full_url"

\* What follows base_url and the suffix of the profile's wire_api in the returned URL.
UrlRest ==
    Slice(ret.val, Len(profile.base_url) + Len(WireSuffix(profile.wire_api)), Len(ret.val))

\* "k=v" of every entry of params, in the order `order`, joined with "&".
RECURSIVE Rendered(_, _)
Rendered(params, order) ==
    IF order = <<>> THEN <<>>
    ELSE order[1] \o <<"=">> \o params[order[1]]
            \o (IF Len(order) = 1 THEN <<>> ELSE <<"&">> \o Rendered(params, Tail(order)))

\* C2: the query string is "?" and one raw "k=v" per entry joined with "&" when
\* query_params is present and non-empty, and nothing at all (not even "?")
\* when query_params is absent or an empty map.
C2_QueryStringOnlyWhenNonEmpty ==
    UrlReturned =>
        IF profile.query_params.some /\ DOMAIN profile.query_params.val # {}
        THEN \E order \in Orders(DOMAIN profile.query_params.val) :
                UrlRest = <<"?">> \o Rendered(profile.query_params.val, order)
        ELSE UrlRest = <<>>

\* C9: the returned URL is base_url verbatim, then "/responses" for Responses
\* and "/chat/completions" for Chat, then nothing or a query string that
\* starts with "?".
C9_UrlIsBaseSuffixQuery ==
    UrlReturned =>
        LET url == ret.val
            b == Len(profile.base_url)
            suffix == IF profile.wire_api = "Responses"
                      THEN <<"/", "r", "e", "s", "p", "o", "n", "s", "e", "s">>
                      ELSE <<"/", "c", "h", "a", "t", "/", "c", "o", "m", "p", "l",
                             "e", "t", "i", "o", "n", "s">>
        IN  /\ profile.wire_api \in {"Responses", "Chat"}
            /\ Len(url) >= b + Len(suffix)
            /\ Slice(url, 0, b) = profile.base_url
            /\ Slice(url, b, b + Len(suffix)) = suffix
            /\ Len(url) > b + Len(suffix) => url[b + Len(suffix) + 1] = "?"

\* A Responses profile whose base_url ends with "/" and that has a query parameter.
C9_Witness ==
    /\ UrlReturned
    /\ profile.wire_api = "Responses"
    /\ profile.base_url = <<"b", "/">>
    /\ profile.query_params = Some([k \in {<<"k">>} |-> <<"v">>])
    /\ ret.val = <<"b", "/", "/", "r", "e", "s", "p", "o", "n", "s", "e", "s",
                   "?", "k", "=", "v">>

-----------------------------------------------------------------------------
\* Specification of get_custom_headers as a function of the profile's headers
\* and the process-wide block CODEX_CUSTOM_HEADERS.

HY == <<"Y">>

\* Lines of the block: with and without a colon, with whitespace around the
\* name and the value, with a second colon, with an empty name, with a placeholder.
HeaderLines ==
    { <<"X", ":", "$", "{", "A", "}">>,
      <<" ", "X", " ", ":", " ", "a", " ">>,
      <<"X">>,
      <<"Y", ":", "a", ":", "b">>,
      <<":", "a">>,
      <<>> }

\* The texts of at most n lines, joined with "\n".
RECURSIVE BlockTexts(_)
BlockTexts(n) ==
    IF n = 0 THEN {<<>>}
    ELSE HeaderLines \cup BlockTexts(n - 1)
            \cup {b \o <<"\n">> \o l : b \in BlockTexts(n - 1) \ {<<>>}, l \in HeaderLines}

BlockValues == {Unset, NotUnicode} \cup {Text(b) : b \in BlockTexts(MaxLines)}

HeaderTemplates == {<<"p">>, <<"$", "{", "A", "}">>}

HeaderMaps == UNION {[D -> HeaderTemplates] : D \in SUBSET {HX, HY}}

PlainValues == {Unset, NotUnicode, Text(<<"v">>)}

InitHdr ==
    /\ \E h \in {None} \cup {Some(m) : m \in HeaderMaps} :
          profile = MkProfile(BaseUrl, None, None, "Chat", None, h)
    /\ \E a \in PlainValues, b \in BlockValues :
          env = [n \in EnvNames |->
                    IF n = VarA THEN a ELSE IF n = CODEX_CUSTOM_HEADERS THEN b ELSE Unset]
    /\ openai_api_key = None
    /\ InitCall

NextHdr ==
    \/ GetCustomHeaders
    \/ SubstLoopFound
    \/ SubstLoopBody
    \/ SubstLoopExit

SpecHdr == InitHdr /\ [][NextHdr]_vars

\* The lines of the block, none when CODEX_CUSTOM_HEADERS holds no text.
BlockLines ==
    IF env[CODEX_CUSTOM_HEADERS].kind = "text"
    THEN StrLines(env[CODEX_CUSTOM_HEADERS].text) ELSE <<>>

\* The position of the first colon of a line that has one.
FirstColon(l) == CHOOSE i \in 1..Len(l) : l[i] = ":" /\ \A j \in 1..(i - 1) : l[j] # ":"

Colon(l) == \E i \in 1..Len(l) : l[i] = ":"

NameOf(l) == Trim(SubSeq(l, 1, FirstColon(l) - 1))

RawValueOf(l) == Trim(SubSeq(l, FirstColon(l) + 1, Len(l)))

ProfileHeaders == IF profile.custom_headers.some THEN profile.custom_headers.val ELSE <<>>

\* The lines of the block named n.
BlockLinesNamed(n) == {i \in 1..Len(BlockLines) : Colon(BlockLines[i]) /\ NameOf(BlockLines[i]) = n}

Last(S) == CHOOSE i \in S : \A j \in S : j <= i

\* C4: for every header name n, the returned mapping holds the substituted value
\* of the block's (last) line named n when the block has one, otherwise the
\* substituted value of the profile's entry n when it exists, and no entry otherwise.
C4_BlockOverridesProfile ==
    HeadersReturned =>
        LET names == (DOMAIN ret.val) \cup (DOMAIN ProfileHeaders)
                        \cup {BlockItems[i].key : i \in 1..Len(BlockItems)}
        IN  \A n \in names :
                IF BlockLinesNamed(n) # {}
                THEN /\ n \in DOMAIN ret.val
                     /\ ret.val[n] = OnePass(RawValueOf(BlockLines[Last(BlockLinesNamed(n))]))
                ELSE IF n \in DOMAIN ProfileHeaders
                THEN /\ n \in DOMAIN ret.val
                     /\ ret.val[n] = OnePass(ProfileHeaders[n])
                ELSE n \notin DOMAIN ret.val

\* Header X is in the profile and in the block, header Y in the profile only.
C4_Witness ==
    /\ HeadersReturned
    /\ profile.custom_headers = Some([k \in {HX, HY} |-> <<"p">>])
    /\ env[CODEX_CUSTOM_HEADERS] = Text(<<"X", ":", "$", "{", "A", "}">>)
    /\ env[VarA] = Text(<<"v">>)
    /\ ret.val = [k \in {HX, HY} |-> IF k = HX THEN <<"v">> ELSE <<"p">>]

\* C8: every line of the block that has a colon is split at its first colon into
\* a trimmed name and a trimmed value and contributes an entry; a line without a
\* colon contributes none, and the lines after it are still processed.
C8_BlockParsing ==
    HeadersReturned =>
        /\ \A i \in 1..Len(BlockLines) :
              Colon(BlockLines[i]) =>
                  /\ NameOf(BlockLines[i]) \in DOMAIN ret.val
                  /\ i = Last(BlockLinesNamed(NameOf(BlockLines[i])))
                        => ret.val[NameOf(BlockLines[i])] = OnePass(RawValueOf(BlockLines[i]))
        /\ \A n \in DOMAIN ret.val :
              n \in DOMAIN ProfileHeaders \/ BlockLinesNamed(n) # {}

\* A line without a colon, then a line with two colons.
C8_Witness ==
    /\ HeadersReturned
    /\ profile.custom_headers = None
    /\ env[CODEX_CUSTOM_HEADERS] = Text(<<"X", "\n", "Y", ":", "a", ":", "b">>)
    /\ ret.val = [k \in {HY} |-> <<"a", ":", "b">>]

-----------------------------------------------------------------------------
\* api_key.

\* The value looked up for env_key: the external key for the primary variable
\* (`get_openai_api_key().map_or_else(|| Err(VarError::NotPresent), Ok)`),
\* `std::env::var(env_key)` for any other.
ApiKeyEnvValue(env_key) ==
    IF env_key = OPENAI_API_KEY_ENV_VAR
    THEN IF GetOpenaiApiKey.some THEN Ok(GetOpenaiApiKey.val) ELSE Err("NotPresent")
    ELSE EnvVar(env_key)

\* Mutant of ApiKeyAndThen: the value is tested with is_empty() without trim().
ApiKeyAndThenNoTrim(env_value) ==
    IF env_value.tag = "Ok"
    THEN IF env_value.val = <<>> THEN Err("NotPresent") ELSE Ok(Some(env_value.val))
    ELSE env_value

\* `.and_then(|v| if v.trim().is_empty() { Err(VarError::NotPresent) } else { Ok(Some(v)) })`
ApiKeyAndThen(env_value) ==
    IF env_value.tag = "Ok"
    THEN IF Trim(env_value.val) = <<>> THEN Err("NotPresent") ELSE Ok(Some(env_value.val))
    ELSE env_value

\* `.map_err(|_| CodexErr::EnvVar(EnvVarError { var, instructions }))`
ApiKeyMapErr(r, env_key) ==
    IF r.tag = "Ok" THEN r
    ELSE Err([var |-> env_key, instructions |-> profile.env_key_instructions])

\* Mutant of ApiKeyResult: the result of an earlier call of api_key is kept and
\* returned again.
ApiKeyResultCached ==
    IF ret.op = "api_key" THEN ret.val
    ELSE IF profile.env_key.some
    THEN ApiKeyMapErr(ApiKeyAndThen(ApiKeyEnvValue(profile.env_key.val)), profile.env_key.val)
    ELSE Ok(None)

\* `match &self.env_key { Some(env_key) => ..., None => Ok(None) }`
ApiKeyResult ==
    IF profile.env_key.some
    THEN ApiKeyMapErr(ApiKeyAndThen(ApiKeyEnvValue(profile.env_key.val)), profile.env_key.val)
    ELSE Ok(None)

\* A call of api_key.
ApiKey ==
    /\ pc = "idle"
    /\ ret' = [op |-> "api_key", val |-> ApiKeyResult]
    /\ ret_state' = Returning
    /\ UNCHANGED <<profile, env, openai_api_key, pc, todo, cur_key, result, headers>>

-----------------------------------------------------------------------------
\* The environment changes between calls (std::env::set_var, remove_var), never
\* during one.

KeyValues ==
    {NotUnicode, Text(<<>>), Text(<<" ">>), Text(<<"s">>), Text(<<" ", "s">>)}

SettableValues(n) ==
    IF n = VarK THEN KeyValues
    ELSE IF n = VarA THEN {Text(<<"v">>), Text(<<"w">>)}
    ELSE {Text(<<"X", ":", "$", "{", "A", "}">>)}

\* std::env::set_var(n, v)
SetVar(n, v) ==
    /\ pc = "idle"
    /\ env[n] # v
    /\ env' = [env EXCEPT ![n] = v]
    /\ ret_state' = Changing
    /\ UNCHANGED <<profile, openai_api_key, pc, todo, cur_key, result, headers, ret>>

\* std::env::remove_var(n)
RemoveVar(n) ==
    /\ pc = "idle"
    /\ env[n] # Unset
    /\ env' = [env EXCEPT ![n] = Unset]
    /\ ret_state' = Changing
    /\ UNCHANGED <<profile, openai_api_key, pc, todo, cur_key, result, headers, ret>>

ExternalKeys == {None, Some(<<>>), Some(<<" ">>), Some(<<"s">>)}

\* The external key lookup comes to yield another value.
ExternalKeyChange ==
    /\ pc = "idle"
    /\ \E k \in ExternalKeys \ {openai_api_key} : openai_api_key' = k
    /\ ret_state' = Changing
    /\ UNCHANGED <<profile, env, pc, todo, cur_key, result, headers, ret>>

Instructions == <<"i">>

Init ==
    /\ \E k \in {None, Some(VarK), Some(OPENAI_API_KEY_ENV_VAR)},
          i \in {None, Some(Instructions)},
          h \in {None, Some(OneHeader(<<"$", "{", "A", "}">>))} :
          profile = MkProfile(BaseUrl, k, i, "Chat", None, h)
    /\ env = [n \in EnvNames |-> Unset]
    /\ openai_api_key = None
    /\ InitCall

Next ==
    \/ \E n \in EnvNames : \E v \in SettableValues(n) : SetVar(n, v)
    \/ \E n \in EnvNames : RemoveVar(n)
    \/ ExternalKeyChange
    \/ ApiKey
    \/ GetCustomHeaders
    \/ SubstLoopFound
    \/ SubstLoopBody
    \/ SubstLoopExit

Spec == Init /\ [][Next]_vars

-----------------------------------------------------------------------------
\* Claims about api_key and about calls interleaved with environment changes,
\* checked under Spec.

\* api_key has returned and nothing changed since.
ApiKeyReturned == ret.op = "api_key" /\ ret_state \in {"fresh", "refreshed"}

Blank(s) == \A i \in 1..Len(s) : s[i] \in {" ", "\t", "\n", "\r"}

\* The credential variable is unset, empty or all-whitespace (for the primary
\* variable: the external lookup yields nothing or a blank value).
CredentialUnsetOrBlank ==
    IF profile.env_key.val = OPENAI_API_KEY_ENV_VAR
    THEN ~openai_api_key.some \/ Blank(openai_api_key.val)
    ELSE \/ env[profile.env_key.val].kind = "unset"
         \/ env[profile.env_key.val].kind = "text" /\ Blank(env[profile.env_key.val].text)

\* The credential variable holds bytes that are not valid Unicode.
CredentialNotUnicode ==
    /\ profile.env_key.val # OPENAI_API_KEY_ENV_VAR
    /\ env[profile.env_key.val].kind = "not_unicode"

\* The failure carries the profile's env_key and env_key_instructions.
FailureCarriesProfile ==
    ret.val.tag = "Err" =>
        /\ ret.val.val.var = profile.env_key.val
        /\ ret.val.val.instructions = profile.env_key_instructions

\* C5 as stated: api_key fails if and only if env_key is present and the variable
\* is unset, empty or all-whitespace; without env_key the result is Ok(None); the
\* failure carries the profile's env_key and env_key_instructions.
C5_FailsIffUnsetOrBlank ==
    ApiKeyReturned =>
        /\ ret.val.tag = "Err" <=> (profile.env_key.some /\ CredentialUnsetOrBlank)
        /\ ~profile.env_key.some => ret.val = Ok(None)
        /\ FailureCarriesProfile

\* C5 amended: api_key fails if and only if env_key is present and the variable
\* is unset, not valid Unicode, empty or all-whitespace; the rest as stated.
C5_FailsIffUnsetNotUnicodeOrBlank ==
    ApiKeyReturned =>
        /\ ret.val.tag = "Err"
              <=> (profile.env_key.some /\ (CredentialUnsetOrBlank \/ CredentialNotUnicode))
        /\ ~profile.env_key.some => ret.val = Ok(None)
        /\ FailureCarriesProfile

\* The credential variable holds only whitespace and api_key fails with the
\* profile's variable name and instructions.
C5_Witness ==
    /\ ApiKeyReturned
    /\ profile.env_key = Some(VarK)
    /\ profile.env_key_instructions = Some(Instructions)
    /\ env[VarK] = Text(<<" ">>)
    /\ ret.val = Err([var |-> VarK, instructions |-> Some(Instructions)])

\* What api_key has to return for the profile in the present environment.
ExpectedApiKey ==
    IF ~profile.env_key.some THEN Ok(None)
    ELSE IF CredentialUnsetOrBlank \/ CredentialNotUnicode
    THEN Err([var |-> profile.env_key.val, instructions |-> profile.env_key_instructions])
    ELSE IF profile.env_key.val = OPENAI_API_KEY_ENV_VAR THEN Ok(Some(openai_api_key.val))
    ELSE Ok(Some(env[profile.env_key.val].text))

\* What get_custom_headers has to return for the profile in the present
\* environment (whose values hold no placeholder text under Spec).
ExpectedHeaders ==
    LET names == (DOMAIN ProfileHeaders)
                    \cup {NameOf(BlockLines[i]) : i \in {j \in 1..Len(BlockLines) : Colon(BlockLines[j])}}
    IN  [n \in names |->
            IF BlockLinesNamed(n) # {}
            THEN OnePass(RawValueOf(BlockLines[Last(BlockLinesNamed(n))]))
            ELSE OnePass(ProfileHeaders[n])]

\* C6: the result of every call of api_key and get_custom_headers is the one the
\* profile and the environment at the time of the call determine, also when the
\* environment changed since an earlier call: no earlier value is reused.
C6_NoCaching ==
    ret_state \in {"fresh", "refreshed"} =>
        /\ ret.op = "api_key" => ret.val = ExpectedApiKey
        /\ ret.op = "get_custom_headers" => ret.val = ExpectedHeaders

\* A call of api_key made after the environment changed since an earlier call
\* returns the value the credential variable holds now.
C6_Witness ==
    /\ ret_state = "refreshed"
    /\ ret.op = "api_key"
    /\ profile.env_key = Some(VarK)
    /\ env[VarK] = Text(<<"s">>)
    /\ ret.val = Ok(Some(<<"s">>))

====
